---- MODULE Spec2Model ----
(***************************************************************************)
(* Model of the ILSOS bulk-data downloader: main.py (the batch loop over   *)
(* DATASETS) and utils.py (schema table, retrying fetch, fixed-width       *)
(* decoder, per-dataset pipeline).                                         *)
(*                                                                         *)
(* Text is a sequence of Unicode code points, archive members are          *)
(* sequences of bytes.  A dict is a sequence of <<key, value>> pairs in    *)
(* insertion order.  A DataFrame is [columns, rows].                       *)
(***************************************************************************)
EXTENDS Integers, Sequences, FiniteSets, TLC

VARIABLES
    table,        \* the dataset list iterated by main
    upstream,     \* the archive the server holds, and the failures that can occur
    pc,           \* control position
    i,            \* index of main's for loop (1-based)
    outDir,       \* whether ./data exists
    out,          \* files of ./data: dataset id -> file
    tmp,          \* the TemporaryDirectory of the running process_dataset
    attemptLog,   \* outcomes of the HTTP attempts of the running get_zip_content
    zip_content,  \* the response returned by get_zip_content
    txt_content,  \* decoded text handed to parse_fixed_width
    schema,       \* schema handed to parse_fixed_width
    df,           \* DataFrame returned by parse_fixed_width
    log,          \* records written by logger.exception / logger.info("Done.")
    lastExc,      \* exception most recently caught by main
    calls,        \* history: ids handed to process_dataset, in order
    steps,        \* history: pipeline steps completed by the running process_dataset
    src           \* history: the lines the decoder input was assembled from

vars == <<table, upstream, pc, i, outDir, out, tmp, attemptLog, zip_content,
          txt_content, schema, df, log, lastExc, calls, steps, src>>

Min(a, b) == IF a < b THEN a ELSE b

(***************************************************************************)
(* Python string primitives used by parse_fixed_width                      *)
(***************************************************************************)

\* code points str.strip() removes (those that can occur in ISO-8859-9 text)
Whitespace == {9, 10, 11, 12, 13, 28, 29, 30, 31, 32, 133, 160}

\* code points str.splitlines() breaks on (CR LF counts as one break)
LineBreaks == {10, 11, 12, 13, 28, 29, 30, 133}

\* The one element of a singleton set.  An operator argument is evaluated
\* again at every use of the parameter; { e(x) : x \in {arg} } evaluates it once.
Only(S) == CHOOSE x \in S : TRUE

\* the k-th smallest element of a set of integers
Nth(set, k) ==
    Only({ CHOOSE p \in S : Cardinality({q \in S : q < p}) = k - 1 : S \in {set} })

\* positions of the characters of s that are not whitespace
Ink(s) == {n \in 1..Len(s) : s[n] \notin Whitespace}

\* str.strip(): from the first to the last character that is not whitespace
Strip(str) ==
    Only({ IF Ink(s) = {} THEN <<>>
           ELSE SubSeq(s, Nth(Ink(s), 1), Nth(Ink(s), Cardinality(Ink(s)))) : s \in {str} })

\* positions where a line break starts (the LF of a CR LF does not start one)
BreakStarts(s) ==
    {p \in 1..Len(s) : s[p] \in LineBreaks /\ ~(s[p] = 10 /\ p > 1 /\ s[p - 1] = 13)}

BreakLen(s, p) == IF s[p] = 13 /\ p < Len(s) /\ s[p + 1] = 10 THEN 2 ELSE 1

\* where the k-th line starts
LineStart(s, k) ==
    IF k = 1 THEN 1
    ELSE Nth(BreakStarts(s), k - 1) + BreakLen(s, Nth(BreakStarts(s), k - 1))

\* the number of lines: one per break, and the rest after the last break if any
LineCount(s) ==
    Cardinality(BreakStarts(s)) +
        (IF LineStart(s, Cardinality(BreakStarts(s)) + 1) <= Len(s) THEN 1 ELSE 0)

\* str.splitlines(): no empty piece after a final line break
SplitLines(str) ==
    Only({ [k \in 1..LineCount(s) |->
               SubSeq(s, LineStart(s, k),
                      IF k <= Cardinality(BreakStarts(s)) THEN Nth(BreakStarts(s), k) - 1
                      ELSE Len(s))] : s \in {str} })

\* seq[a:b] for 0 <= a, 0 <= b: indices past the end are clipped
Slice(s, a, b) == SubSeq(s, a + 1, Min(b, Len(s)))

\* seq[1:-1]
DropFirstLast(s) == SubSeq(s, 2, Len(s) - 1)

\* str.replace(old, new) for a one-character old and a new of at most one character
Replace(str, old, new) ==
    Only({ IF new = <<>> THEN SelectSeq(s, LAMBDA c : c # old)
           ELSE [n \in 1..Len(s) |-> IF s[n] = old THEN new[1] ELSE s[n]] : s \in {str} })

DictKeys(d) == [n \in 1..Len(d) |-> d[n][1]]

DictValues(d) == [n \in 1..Len(d) |-> d[n][2]]

\* pd.DataFrame(list of dicts that share their keys)
DataFrame(processed_rows) ==
    Only({ IF d = <<>>
           THEN [columns |-> <<>>, rows |-> <<>>]
           ELSE [columns |-> DictKeys(d[1]),
                 rows    |-> [n \in 1..Len(d) |-> DictValues(d[n])]] :
           d \in {processed_rows} })

(***************************************************************************)
(* parse_fixed_width                                                       *)
(***************************************************************************)

\* the same without the deletion of NUL
CleanLineNoNul(line) ==
    Replace(Replace(Replace(line, 304, <<91>>), 168, <<93>>), 172, <<94>>)

\* the character cleaning: U+0130 -> "[", U+00A8 -> "]", U+00AC -> "^", NUL deleted
CleanLine(line) ==
    Replace(Replace(Replace(Replace(line, 304, <<91>>), 168, <<93>>), 172, <<94>>), 0, <<>>)

\* the slice without .strip()
FieldValueUntrimmed(clean_line, start, length) ==
    Slice(clean_line, start, start + length)

\* value = clean_line[start:end].strip()
FieldValue(clean_line, start, length) ==
    Strip(Slice(clean_line, start, start + length))

\* descriptors that introduce a key: a dict keeps a key where it was first set
KeySlots(sch) == {j \in 1..Len(sch) : \A k \in 1..(j - 1) : sch[k][1] # sch[j][1]}

\* the descriptor that sets a key last: its value is the one the dict keeps
LastSlot(sch, name) == CHOOSE j \in 1..Len(sch) :
    sch[j][1] = name /\ \A k \in (j + 1)..Len(sch) : sch[k][1] # name

\* the inner for loop over the schema: row[col_name] = value, as (key, value) pairs
Row(clean_line, sch) ==
    Only({ [n \in 1..Cardinality(slots) |->
               << sch[Nth(slots, n)][1],
                  FieldValue(cl, sch[LastSlot(sch, sch[Nth(slots, n)][1])][2],
                                 sch[LastSlot(sch, sch[Nth(slots, n)][1])][3]) >>] :
           cl \in {clean_line}, slots \in {KeySlots(sch)} })

\* the outer for loop over the lines: one row per line, in order
Rows(lines, sch) ==
    Only({ [n \in 1..Len(ls) |-> Row(CleanLine(ls[n]), sch)] : ls \in {lines} })

\* [1:] in place of [1:-1]
DataLinesKeepLast(txt) == SubSeq(SplitLines(Strip(txt)), 2, Len(SplitLines(Strip(txt))))

\* no [1:-1] at all
DataLinesAll(txt) == SplitLines(Strip(txt))

\* txt_content.strip().splitlines()[1:-1]
DataLines(txt) == DropFirstLast(SplitLines(Strip(txt)))

parse_fixed_width(txt, sch) == DataFrame(Rows(DataLines(txt), sch))

(***************************************************************************)
(* The schema table (utils.py) and the dataset table (main.py)             *)
(***************************************************************************)

cdxallmst ==
    << <<"file_number", 0, 8>>, <<"incorp_date", 8, 8>>, <<"extended_date", 16, 8>>,
       <<"state_code", 24, 2>>, <<"corp_intent", 26, 3>>, <<"status", 29, 2>>,
       <<"type_corp", 31, 1>>, <<"trans_date", 32, 8>>, <<"pres_name_addr", 40, 60>>,
       <<"sec_name_addr", 100, 60>> >>

cdxallnam == << <<"file_number", 0, 8>>, <<"name", 8, 189>> >>

\* cdxallagt with agent_city starting one column early
cdxallagtOverlap ==
    << <<"file_number", 0, 8>>, <<"agent_name", 8, 60>>, <<"agent_street", 68, 45>>,
       <<"agent_city", 112, 30>>, <<"agent_change_date", 143, 8>>,
       <<"agent_code", 151, 1>>, <<"agent_zip", 152, 9>>,
       <<"agent_county_code", 161, 3>> >>

cdxallagt ==
    << <<"file_number", 0, 8>>, <<"agent_name", 8, 60>>, <<"agent_street", 68, 45>>,
       <<"agent_city", 113, 30>>, <<"agent_change_date", 143, 8>>,
       <<"agent_code", 151, 1>>, <<"agent_zip", 152, 9>>,
       <<"agent_county_code", 161, 3>> >>

cdxallaon ==
    << <<"file_number", 0, 8>>, <<"cancel_date", 8, 8>>, <<"assumed_curr_date", 16, 8>>,
       <<"assumed_old_ind", 24, 1>>, <<"assumed_old_date", 25, 8>>,
       <<"assumed_old_name", 33, 189>> >>

llcallmst ==
    << <<"file_number", 0, 8>>, <<"purpose_code", 8, 6>>, <<"status_code", 14, 2>>,
       <<"status_date", 16, 8>>, <<"organized_date", 24, 8>>,
       <<"dissolution_date", 32, 8>>, <<"management_type", 40, 1>>,
       <<"juris_organized", 41, 2>>, <<"records_off_street", 43, 45>>,
       <<"records_off_city", 88, 30>>, <<"records_off_zip", 118, 9>>,
       <<"records_off_juris", 127, 2>>, <<"assumed_in", 129, 1>>, <<"old_ind", 130, 1>>,
       <<"provisions_ind", 131, 1>>, <<"opt_ind", 132, 1>>, <<"series_ind", 133, 1>>,
       <<"uap_ind", 134, 1>>, <<"l3c_ind", 135, 1>> >>

llcallnam == << <<"file_number", 0, 8>>, <<"name", 8, 120>> >>

llcallagt ==
    << <<"file_number", 0, 8>>, <<"agent_code", 8, 1>>, <<"agent_name", 9, 60>>,
       <<"agent_street", 69, 45>>, <<"agent_city", 114, 30>>, <<"agent_zip", 144, 9>>,
       <<"agent_county_code", 153, 3>>, <<"agent_change_date", 156, 8>> >>

llcallold ==
    << <<"file_number", 0, 8>>, <<"old_date_filed", 8, 8>>, <<"llc_name", 16, 120>>,
       <<"series_nbr", 136, 3>> >>

llcallmgr ==
    << <<"file_number", 0, 8>>, <<"mm_name", 8, 60>>, <<"mm_street", 68, 45>>,
       <<"mm_city", 113, 30>>, <<"mm_juris", 143, 2>>, <<"mm_zip", 145, 9>>,
       <<"mm_file_date", 154, 8>>, <<"mm_type_code", 162, 1>> >>

ILSOS_SCHEMA ==
    ("cdxallmst" :> cdxallmst) @@ ("cdxallnam" :> cdxallnam) @@
    ("cdxallagt" :> cdxallagt) @@ ("cdxallaon" :> cdxallaon) @@
    ("llcallmst" :> llcallmst) @@ ("llcallnam" :> llcallnam) @@
    ("llcallagt" :> llcallagt) @@ ("llcallold" :> llcallold) @@
    ("llcallmgr" :> llcallmgr)

Dataset(name, id) ==
    [name |-> name, id |-> id, url |-> <<"https://www.ilsos.gov/data/bs/", id, ".zip">>]

DATASETS ==
    << Dataset("Illinois Corporations Bulk Data - Master", "cdxallmst"),
       Dataset("Illinois Corporations Bulk Data - Company Name", "cdxallnam"),
       Dataset("Illinois Corporations Bulk Data - Agent", "cdxallagt"),
       Dataset("Illinois Corporations Bulk Data - Assumed/Old Names", "cdxallaon"),
       Dataset("Illinois LLC Bulk Data - Master", "llcallmst"),
       Dataset("Illinois LLC Bulk Data - Company Name", "llcallnam"),
       Dataset("Illinois LLC Bulk Data - Agent", "llcallagt"),
       Dataset("Illinois LLC Bulk Data - Old Names", "llcallold"),
       Dataset("Illinois LLC Bulk Data - Managers", "llcallmgr") >>

(***************************************************************************)
(* Exceptions, HTTP replies, archives, files                               *)
(***************************************************************************)

Exc(type) == [type |-> type, status |-> 0, response |-> FALSE]

\* HTTPError raised by raise_for_status; response tells whether e.response is set
HTTPError(status, response) == [type |-> "HTTPError", status |-> status, response |-> response]

NoExc == Exc("None")

\* what one requests.get can meet: a response with a status, or a raised error
Reply(status) == [type |-> "Response", status |-> status, response |-> TRUE]

\* "HDR" LF "FTR" LF : header and trailer only
MemberNoData == <<72, 68, 82, 10, 70, 84, 82, 10>>

\* "HDR" CRLF "00000001ACME " 0xDD "1" 0xA8 NUL 0xAC CRLF "FTR" CRLF
MemberOneLine ==
    <<72, 68, 82, 13, 10,
      48, 48, 48, 48, 48, 48, 48, 49, 65, 67, 77, 69, 32, 221, 49, 168, 0, 172, 13, 10,
      70, 84, 82, 13, 10>>

\* "HDR" LF "00000002" LF "00000003 B" LF "FTR"
MemberTwoLines ==
    <<72, 68, 82, 10,
      48, 48, 48, 48, 48, 48, 48, 50, 10,
      48, 48, 48, 48, 48, 48, 48, 51, 32, 66, 10,
      70, 84, 82>>

Member(ext, data) == [ext |-> ext, data |-> data]

\* a zip archive with its members in namelist() order
Zip(members) == [zip |-> TRUE, members |-> members]

\* a body that is not a zip archive
NotZip == [zip |-> FALSE, members |-> <<>>]

ZipNoTxt == Zip(<<Member("pdf", <<37>>)>>)

ZipOf(data) == Zip(<<Member("pdf", <<37>>), Member("TXT", data)>>)

Bodies == {NotZip, ZipNoTxt, ZipOf(<<>>), ZipOf(MemberNoData), ZipOf(MemberOneLine),
           ZipOf(MemberTwoLines)}

\* name.lower() on the extension of a member name
Lower(ext) == IF ext = "TXT" THEN "txt" ELSE IF ext = "PDF" THEN "pdf" ELSE ext

\* bytes.decode("ISO-8859-9"): Latin-1 except for six Turkish letters
Decode(bytes) ==
    [n \in 1..Len(bytes) |->
        CASE bytes[n] = 208 -> 286
          [] bytes[n] = 221 -> 304
          [] bytes[n] = 222 -> 350
          [] bytes[n] = 240 -> 287
          [] bytes[n] = 253 -> 305
          [] bytes[n] = 254 -> 351
          [] OTHER -> bytes[n]]

File(lines) == [exists |-> TRUE, lines |-> lines]

Absent == [exists |-> FALSE, lines |-> <<>>]

\* a CSV file left by an earlier run
Stale == File(<< <<"stale">> >>)

\* df.to_csv(path, index=False): the header line, then one line per row
to_csv(frame) == File(<<frame.columns>> \o frame.rows)

NoTmp == [exists |-> FALSE, zip |-> NotZip, written |-> FALSE]

NoResponse == [status |-> 0, body |-> NotZip]

NoFrame == [columns |-> <<>>, rows |-> <<>>]

NoSrc == [lines |-> <<>>, term |-> <<>>, final |-> FALSE]

Ids(t) == {t[n].id : n \in 1..Len(t)}

(***************************************************************************)
(* get_zip_content and its retry_handler                                   *)
(***************************************************************************)

\* every HTTPError is retried, whatever its status
is_retryable_any_http(e) ==
    IF e.type \in {"Timeout", "ConnectionError"} THEN TRUE
    ELSE IF e.type = "HTTPError" THEN TRUE
    ELSE FALSE

is_retryable_http_error(e) ==
    IF e.type \in {"Timeout", "ConnectionError"} THEN TRUE
    ELSE IF e.type = "HTTPError"
         THEN IF e.response /\ 500 <= e.status /\ e.status < 600 THEN TRUE ELSE FALSE
         ELSE FALSE

\* stop_after_attempt(3)
StopAfterAttempt == 3

\* the stop condition of retry_handler
Stop(attempt_number) == attempt_number >= StopAfterAttempt

\* one requests.get followed by raise_for_status: the exception raised, or NoExc
AttemptOutcome(r) ==
    IF r.type = "Response"
    THEN IF r.status >= 400 THEN HTTPError(r.status, r.response) ELSE NoExc
    ELSE Exc(r.type)

(***************************************************************************)
(* main and process_dataset, one action per step                           *)
(***************************************************************************)

\* the dataset main's loop is at
Cur == table[i]

IsTxt(m) == Lower(m.ext) = "txt"

\* a lookup that falls back to an empty schema: ILSOS_SCHEMA.get(id, [])
LookupWithDefault(id) ==
    [found |-> TRUE,
     schema |-> IF id \in DOMAIN ILSOS_SCHEMA THEN ILSOS_SCHEMA[id] ELSE <<>>]

\* ILSOS_SCHEMA[id]: the schema, or not found (KeyError)
Lookup(id) ==
    [found |-> id \in DOMAIN ILSOS_SCHEMA,
     schema |-> IF id \in DOMAIN ILSOS_SCHEMA THEN ILSOS_SCHEMA[id] ELSE <<>>]

\* an exception that is not caught by main: the run ends there
RaiseUncaught(e) ==
    /\ tmp' = NoTmp
    /\ log' = log
    /\ lastExc' = e
    /\ i' = i
    /\ pc' = "done"

\* the temp dir is not removed on the way out
RaiseKeepTmp(e) ==
    /\ tmp' = tmp
    /\ log' = Append(log, [level |-> "ERROR", name |-> Cur.name, id |-> Cur.id])
    /\ lastExc' = e
    /\ i' = i + 1
    /\ pc' = "loop"

\* An exception leaving process_dataset: the TemporaryDirectory is removed on
\* the way out, main's except clause logs name and id, the loop goes on.
Raise(e) ==
    /\ tmp' = NoTmp
    /\ log' = Append(log, [level |-> "ERROR", name |-> Cur.name, id |-> Cur.id])
    /\ lastExc' = e
    /\ i' = i + 1
    /\ pc' = "loop"

\* main: create ./data when it does not exist
MainSetup ==
    /\ pc = "main"
    /\ outDir' = TRUE
    /\ pc' = "loop"
    /\ UNCHANGED <<table, upstream, i, out, tmp, attemptLog, zip_content, txt_content,
                   schema, df, log, lastExc, calls, steps, src>>

\* main hands the next dataset to process_dataset, which creates its temp dir
EnterProcess ==
    /\ pc = "loop"
    /\ i <= Len(table)
    /\ calls' = Append(calls, Cur.id)
    /\ tmp' = [exists |-> TRUE, zip |-> NotZip, written |-> FALSE]
    /\ attemptLog' = <<>>
    /\ steps' = <<>>
    /\ zip_content' = NoResponse
    /\ txt_content' = <<>>
    /\ schema' = <<>>
    /\ df' = NoFrame
    /\ pc' = "fetch"
    /\ UNCHANGED <<table, upstream, i, outDir, out, log, lastExc, src>>

\* one attempt of get_zip_content under retry_handler (reraise=True)
Attempt ==
    /\ pc = "fetch"
    /\ \E r \in {Reply(200)} \cup (upstream.faults \ {Exc("DiskFull")}) :
        LET e == AttemptOutcome(r)
            attempt_number == Len(attemptLog) + 1
        IN  /\ attemptLog' = Append(attemptLog, e)
            /\ IF e = NoExc
               THEN /\ zip_content' = [status |-> r.status, body |-> upstream.archive]
                    /\ steps' = Append(steps, "fetch")
                    /\ pc' = "write_zip"
                    /\ UNCHANGED <<tmp, log, lastExc, i>>
               ELSE IF is_retryable_http_error(e) /\ ~Stop(attempt_number)
                    THEN UNCHANGED <<pc, zip_content, steps, tmp, log, lastExc, i>>
                    ELSE Raise(e) /\ UNCHANGED <<zip_content, steps>>
    /\ UNCHANGED <<table, upstream, outDir, out, txt_content, schema, df, calls, src>>

\* stream the response body into {id}.zip in the temp dir
WriteZip ==
    /\ pc = "write_zip"
    /\ attemptLog' = <<>>
    /\ \/ /\ tmp' = [exists |-> TRUE, zip |-> zip_content.body, written |-> TRUE]
          /\ steps' = Append(steps, "write_zip")
          /\ pc' = "extract"
          /\ UNCHANGED <<log, lastExc, i>>
       \/ /\ Raise(Exc("RequestException"))
          /\ UNCHANGED steps
    /\ UNCHANGED <<table, upstream, outDir, out, zip_content, txt_content, schema, df,
                   calls, src>>

\* open the archive, take the first .txt member, decode it
Extract ==
    /\ pc = "extract"
    /\ IF ~tmp.zip.zip
       THEN Raise(Exc("BadZipFile")) /\ UNCHANGED <<txt_content, steps>>
       ELSE IF SelectSeq(tmp.zip.members, IsTxt) = <<>>
            THEN Raise(Exc("StopIteration")) /\ UNCHANGED <<txt_content, steps>>
            ELSE /\ txt_content' = Decode(SelectSeq(tmp.zip.members, IsTxt)[1].data)
                 /\ steps' = steps \o <<"extract", "decode">>
                 /\ pc' = "parse"
                 /\ UNCHANGED <<tmp, log, lastExc, i>>
    /\ UNCHANGED <<table, upstream, outDir, out, attemptLog, zip_content, schema, df,
                   calls, src>>

\* ILSOS_SCHEMA[id], then parse_fixed_width
Parse ==
    /\ pc = "parse"
    /\ IF ~Lookup(Cur.id).found
       THEN Raise(Exc("KeyError")) /\ UNCHANGED <<schema, df, steps>>
       ELSE /\ schema' = Lookup(Cur.id).schema
            /\ df' = parse_fixed_width(txt_content, Lookup(Cur.id).schema)
            /\ steps' = steps \o <<"lookup", "parse">>
            /\ pc' = "to_csv"
            /\ UNCHANGED <<tmp, log, lastExc, i>>
    /\ UNCHANGED <<table, upstream, outDir, out, attemptLog, zip_content, txt_content,
                   calls, src>>

\* df.to_csv({id}.csv); process_dataset returns and its temp dir is removed.
\* A failing write leaves the file as it was (it could not be opened) or, when
\* the disk fills up, created or truncated with nothing in it.
ToCsv ==
    /\ pc = "to_csv"
    /\ \/ /\ out' = [out EXCEPT ![Cur.id] = to_csv(df)]
          /\ steps' = Append(steps, "to_csv")
          /\ tmp' = NoTmp
          /\ i' = i + 1
          /\ pc' = "loop"
          /\ UNCHANGED <<log, lastExc>>
       \/ /\ \E f \in {out[Cur.id]} \cup
                       (IF Exc("DiskFull") \in upstream.faults THEN {File(<<>>)} ELSE {}) :
                out' = [out EXCEPT ![Cur.id] = f]
          /\ Raise(Exc("OSError"))
          /\ UNCHANGED steps
    /\ UNCHANGED <<table, upstream, outDir, attemptLog, zip_content, txt_content, schema,
                   df, calls, src>>

\* main: the loop is exhausted, logger.info("Done.")
Finish ==
    /\ pc = "loop"
    /\ i > Len(table)
    /\ log' = Append(log, [level |-> "INFO", name |-> "Done.", id |-> ""])
    /\ pc' = "done"
    /\ UNCHANGED <<table, upstream, i, outDir, out, tmp, attemptLog, zip_content,
                   txt_content, schema, df, lastExc, calls, steps, src>>

Next == MainSetup \/ EnterProcess \/ Attempt \/ WriteZip \/ Extract \/ Parse \/ ToCsv \/ Finish

(***************************************************************************)
(* Initial states                                                          *)
(***************************************************************************)

UnknownDataset == Dataset("Not in the schema table", "cdxallxxx")

AllIds == Ids(DATASETS) \cup {UnknownDataset.id}

Unresponsive == [Reply(503) EXCEPT !.response = FALSE]

\* failures the network and server can produce for one request
AllFaults ==
    {Exc("Timeout"), Exc("ConnectionError"), Exc("RequestException"),
     Reply(404), Reply(499), Reply(500), Reply(599), Unresponsive, Exc("DiskFull")}

FewFaults == {Exc("Timeout"), Reply(404), Reply(503)}

InitWith(tables, archives, faults) ==
    /\ table \in tables
    /\ upstream \in [archive : archives, faults : {faults}]
    /\ pc = "main"
    /\ i = 1
    /\ outDir \in BOOLEAN
    /\ out \in {[id \in AllIds |-> Absent]} \cup
               (IF outDir THEN {[id \in AllIds |-> Stale]} ELSE {})
    /\ tmp = NoTmp
    /\ attemptLog = <<>>
    /\ zip_content = NoResponse
    /\ txt_content = <<>>
    /\ schema = <<>>
    /\ df = NoFrame
    /\ log = <<>>
    /\ lastExc = NoExc
    /\ calls = <<>>
    /\ steps = <<>>
    /\ src = NoSrc

\* the program as shipped: main over DATASETS
Init == InitWith({DATASETS}, {ZipOf(MemberOneLine), ZipNoTxt}, FewFaults)

Spec == Init /\ [][Next]_vars

\* every step of the sequential program is eventually taken
FairSpec == Spec /\ WF_vars(Next)

\* process_dataset on any dataset descriptor, driven by a one- or two-entry table
Tables ==
    {<<d>> : d \in {DATASETS[n] : n \in 1..Len(DATASETS)} \cup {UnknownDataset}}
    \cup {<<UnknownDataset, DATASETS[2]>>, <<DATASETS[2], UnknownDataset>>}

InitProc == InitWith(Tables, Bodies, AllFaults)

SpecProc == InitProc /\ [][Next]_vars

(***************************************************************************)
(* parse_fixed_width called on its own: the text is assembled from known   *)
(* lines, so that what the decoder returns can be compared with what went  *)
(* in.                                                                     *)
(***************************************************************************)

\* most lines a decoder input is assembled from
MaxLines == 4

\* "HDR", "abcXY", "ab", "a" NUL U+0130 U+00A8 U+00AC " ", and the empty line
LineSet ==
    {<<72, 68, 82>>, <<97, 98, 99, 88, 89>>, <<97, 98>>, <<97, 0, 304, 168, 172, 32>>, <<>>}

\* LF and CR LF
Terminators == {<<10>>, <<13, 10>>}

ExampleSchema == << <<"a", 0, 3>>, <<"b", 3, 2>> >>

TestSchemas == {ExampleSchema, << <<"x", 1, 2>>, <<"y", 4, 3>> >>}

RECURSIVE Join(_, _)
\* every line followed by the terminator
Join(lines, term) ==
    IF lines = <<>> THEN <<>> ELSE Head(lines) \o term \o Join(Tail(lines), term)

\* The text whose lines are `lines`: the terminator after the last line is
\* optional, unless that line is empty (it would not be a line without it).
BuildText(lines, term, final) ==
    IF lines = <<>> THEN <<>>
    ELSE IF final \/ lines[Len(lines)] = <<>>
         THEN Join(lines, term)
         ELSE Join(SubSeq(lines, 1, Len(lines) - 1), term) \o lines[Len(lines)]

Inputs ==
    {[lines |-> l, term |-> t, final |-> f] :
        l \in UNION {[1..n -> LineSet] : n \in 0..MaxLines}, t \in Terminators, f \in BOOLEAN}

InitParse ==
    /\ src \in Inputs
    /\ txt_content = BuildText(src.lines, src.term, src.final)
    /\ schema \in TestSchemas
    /\ pc = "call"
    /\ df = NoFrame
    /\ table = DATASETS
    /\ upstream = [archive |-> NotZip, faults |-> {}]
    /\ i = 1
    /\ outDir = FALSE
    /\ out = [id \in AllIds |-> Absent]
    /\ tmp = NoTmp
    /\ attemptLog = <<>>
    /\ zip_content = NoResponse
    /\ log = <<>>
    /\ lastExc = NoExc
    /\ calls = <<>>
    /\ steps = <<>>

\* df = parse_fixed_width(txt_content, schema)
ParseCall ==
    /\ pc = "call"
    /\ df' = parse_fixed_width(txt_content, schema)
    /\ pc' = "returned"
    /\ UNCHANGED <<table, upstream, i, outDir, out, tmp, attemptLog, zip_content,
                   txt_content, schema, log, lastExc, calls, steps, src>>

NextParse == ParseCall

SpecParse == InitParse /\ [][NextParse]_vars

(***************************************************************************)
(* What the decoder is expected to return, stated on the lines the text    *)
(* was assembled from and position by position.                            *)
(***************************************************************************)

IsBlank(line) == \A n \in 1..Len(line) : line[n] \in Whitespace

NonBlank(lines) == {n \in 1..Len(lines) : ~IsBlank(lines[n])}

FirstOf(S) == CHOOSE n \in S : \A m \in S : n <= m

LastOf(S) == CHOOSE n \in S : \A m \in S : m <= n

\* the lines without the blank lines that precede the first and follow the last
\* non-blank line: the lines of the text once its surrounding whitespace is gone
Core(lines) ==
    IF NonBlank(lines) = {} THEN <<>>
    ELSE SubSeq(lines, FirstOf(NonBlank(lines)), LastOf(NonBlank(lines)))

NotNul(c) == c # 0

Ascii(c) == CASE c = 304 -> 91 [] c = 168 -> 93 [] c = 172 -> 94 [] OTHER -> c

\* the line with NUL left out and each legacy glyph mapped, character by character
Cleaned(line) ==
    [n \in 1..Len(SelectSeq(line, NotNul)) |-> Ascii(SelectSeq(line, NotNul)[n])]

\* 1-based positions of cl inside the range [start, start+length) holding non-whitespace
Inked(cl, start, length) ==
    {p \in 1..Len(cl) : p > start /\ p <= start + length /\ cl[p] \notin Whitespace}

\* the characters from the first to the last non-whitespace position of the range
Expected(cl, start, length) ==
    IF Inked(cl, start, length) = {} THEN <<>>
    ELSE SubSeq(cl, FirstOf(Inked(cl, start, length)), LastOf(Inked(cl, start, length)))

ExpectedRow(line, sch) ==
    [j \in 1..Len(sch) |-> Expected(Cleaned(line), sch[j][2], sch[j][3])]

Names(sch) == [j \in 1..Len(sch) |-> sch[j][1]]

Returned == pc = "returned"

\* the construction yields a text with exactly the lines it was given
InputLinesAreLines == SplitLines(txt_content) = src.lines

\* C1 as stated: a text of N >= 2 lines gives N-2 records, the k-th from line k+1.
C1_AsStated ==
    (Returned /\ Len(src.lines) >= 2) =>
        /\ Len(df.rows) = Len(src.lines) - 2
        /\ \A k \in 1..Len(df.rows) : df.rows[k] = ExpectedRow(src.lines[k + 1], schema)

\* C1 amended: when the text, once its leading and trailing whitespace (blank
\* lines included) is removed, has N >= 2 lines, the decoder returns N-2 records
\* and the k-th record is the one of line k+1 of that stripped text, in order.
C1_RecordsOfStrippedText ==
    (Returned /\ Len(Core(src.lines)) >= 2) =>
        /\ Len(df.rows) = Len(Core(src.lines)) - 2
        /\ \A k \in 1..Len(df.rows) :
              df.rows[k] = ExpectedRow(Core(src.lines)[k + 1], schema)

C1_Witness ==
    /\ Returned
    /\ Len(src.lines) = 4
    /\ Len(Core(src.lines)) = 4
    /\ src.lines[2] # src.lines[3]
    /\ Len(df.rows) = 2
    /\ df.rows[1] = ExpectedRow(src.lines[2], schema)
    /\ df.rows[2] = ExpectedRow(src.lines[3], schema)
    /\ df.rows[1] # df.rows[2]

\* C2: a text of fewer than 2 lines gives zero records and no error.
C2_FewLinesNoRecords ==
    (Returned /\ Len(src.lines) < 2) =>
        (df.rows = <<>> /\ df.columns = <<>> /\ lastExc = NoExc)

C2_Witness ==
    /\ Returned
    /\ Len(src.lines) = 1
    /\ ~IsBlank(src.lines[1])
    /\ df.rows = <<>>

\* C8: every record has the schema's field names as keys in schema order, each
\* value is the trimmed slice [start, start+length) of the cleaned line, and a
\* field lying wholly past the end of the line is the empty string; schema
\* [(a,0,3),(b,3,2)] and line "ab" give a = "ab", b = "".
C8_FieldsAreTrimmedSlices ==
    Returned =>
        \A k \in 1..Len(df.rows) :
            /\ df.columns = Names(schema)
            /\ Len(df.rows[k]) = Len(schema)
            /\ \A j \in 1..Len(schema) :
                  /\ df.rows[k][j] =
                        Expected(Cleaned(Core(src.lines)[k + 1]), schema[j][2], schema[j][3])
                  /\ schema[j][2] >= Len(Cleaned(Core(src.lines)[k + 1]))
                        => df.rows[k][j] = <<>>
            /\ (schema = ExampleSchema /\ Core(src.lines)[k + 1] = <<97, 98>>)
                  => df.rows[k] = <<<<97, 98>>, <<>>>>

C8_Witness ==
    /\ Returned
    /\ schema = ExampleSchema
    /\ Len(df.rows) = 2
    /\ Core(src.lines)[2] = <<97, 98>>
    /\ df.rows[1] = <<<<97, 98>>, <<>>>>
    /\ Core(src.lines)[3] = <<97, 0, 304, 168, 172, 32>>
    /\ df.rows[2] = <<<<97, 91, 93>>, <<94>>>>

Occurs(c, s) == \E n \in 1..Len(s) : s[n] = c

\* the four substitutions, as (old, new)
Substitutions == << <<304, <<91>>>>, <<168, <<93>>>>, <<172, <<94>>>>, <<0, <<>>>> >>

\* the four substitutions applied in the order given by the permutation p
CleanedInOrder(line, p) ==
    Replace(Replace(Replace(Replace(line,
        Substitutions[p[1]][1], Substitutions[p[1]][2]),
        Substitutions[p[2]][1], Substitutions[p[2]][2]),
        Substitutions[p[3]][1], Substitutions[p[3]][2]),
        Substitutions[p[4]][1], Substitutions[p[4]][2])

\* C9: the substitution is applied to the whole line before slicing: no field
\* value holds one of the four source characters, a substituted character
\* inside a field's range shows in the value as its ASCII replacement, and the
\* order of the four substitutions does not matter.
C9_SubstitutionBeforeSlicing ==
    Returned =>
        \A k \in 1..Len(df.rows) :
            /\ \A j \in 1..Len(df.rows[k]) :
                  /\ \A c \in {304, 168, 172, 0} : ~Occurs(c, df.rows[k][j])
                  /\ \A p \in 1..Len(Cleaned(Core(src.lines)[k + 1])) :
                        (/\ p > schema[j][2]
                         /\ p <= schema[j][2] + schema[j][3]
                         /\ Cleaned(Core(src.lines)[k + 1])[p] \in {91, 93, 94})
                        => Occurs(Cleaned(Core(src.lines)[k + 1])[p], df.rows[k][j])
            /\ \A p \in Permutations(1..4) :
                  CleanedInOrder(Core(src.lines)[k + 1], p) = CleanLine(Core(src.lines)[k + 1])

C9_Witness ==
    /\ Returned
    /\ schema = ExampleSchema
    /\ Len(df.rows) = 1
    /\ Core(src.lines)[2] = <<97, 0, 304, 168, 172, 32>>
    /\ df.rows[1] = <<<<97, 91, 93>>, <<94>>>>

(***************************************************************************)
(* Claims about main, get_zip_content and process_dataset                  *)
(***************************************************************************)

IdSeq(t) == [n \in 1..Len(t) |-> t[n].id]

Last(s) == s[Len(s)]

Idle == pc \in {"main", "loop", "done"}

Errors == SelectSeq(log, LAMBDA r : r.level = "ERROR")

\* a step on which process_dataset is left by an exception
FailureStep == ~Idle /\ pc' = "loop" /\ steps' = steps

\* C3: every entry of DATASETS is handed to process_dataset exactly once, in
\* table order, whatever failed before; a failure is caught and logged with the
\* dataset's name and id and the loop goes on; the run reaches "Done.".
C3_EveryDatasetOnceThenDone ==
    /\ [](/\ Len(DATASETS) = 9
          /\ Len(calls) = (IF Idle THEN i - 1 ELSE i)
          /\ calls = SubSeq(IdSeq(DATASETS), 1, Len(calls))
          /\ (pc = "done" =>
                (calls = IdSeq(DATASETS) /\ Last(log).name = "Done.")))
    /\ [][FailureStep =>
            (/\ log' = Append(log, [level |-> "ERROR", name |-> DATASETS[i].name,
                                    id |-> DATASETS[i].id])
             /\ i' = i + 1)]_vars
    /\ <>(pc = "done")

C3_Witness ==
    /\ pc = "done"
    /\ Len(calls) = 9
    /\ Len(Errors) = 4
    /\ Errors[1].id = "cdxallmst"
    /\ Errors[4].id = "llcallold"
    /\ out["llcallmgr"] = to_csv(df)

\* retryable as the claim has it: timeout, connection failure, HTTP error 500..599
RetryableKind(e) ==
    \/ e.type = "Timeout"
    \/ e.type = "ConnectionError"
    \/ (e.type = "HTTPError" /\ e.status \in 500..599)

\* C4: one call makes at most 3 attempts; an attempt follows only an attempt
\* that failed with a timeout, a connection failure or a 5xx; any other error
\* surfaces at once; after 3 retryable failures the last error is raised; a
\* return is a success that was obtained.
C4_BoundedRetry ==
    /\ Len(attemptLog) <= 3
    /\ \A n \in 1..(Len(attemptLog) - 1) :
          attemptLog[n] # NoExc /\ RetryableKind(attemptLog[n])
    /\ (pc = "fetch" /\ attemptLog # <<>>) =>
          (RetryableKind(Last(attemptLog)) /\ Last(attemptLog) # NoExc)
    /\ pc = "write_zip" =>
          (attemptLog # <<>> /\ Last(attemptLog) = NoExc /\ zip_content.status = 200)
    /\ (pc = "loop" /\ attemptLog # <<>>) =>
          (Last(attemptLog) # NoExc /\ lastExc = Last(attemptLog))
    /\ \A n \in 1..Len(attemptLog) :
          (attemptLog[n] = NoExc \/ ~RetryableKind(attemptLog[n]) \/ n = 3)
              => (n = Len(attemptLog) /\ pc # "fetch")

C4_Witness ==
    /\ pc = "loop"
    /\ Len(attemptLog) = 3
    /\ attemptLog[1].type = "Timeout"
    /\ attemptLog[2].type = "ConnectionError"
    /\ attemptLog[3] = HTTPError(599, TRUE)
    /\ lastExc = HTTPError(599, TRUE)

\* the dataset whose process_dataset call has just returned normally
Succeeded == pc = "loop" /\ steps # <<>> /\ Last(steps) = "to_csv"

\* C5: the CSV of a dataset that succeeds is {id}.csv, a header row of the
\* schema's field names in schema order, then one row per record in record
\* order, for every number of records, zero included.
C5_CsvHeaderAndRows ==
    Succeeded =>
        out[Last(calls)] = File(<<Names(ILSOS_SCHEMA[Last(calls)])>> \o df.rows)

WellFormed(sch) ==
    /\ \A j \in 1..Len(sch) : sch[j][2] >= 0 /\ sch[j][3] > 0
    /\ \A j \in 1..(Len(sch) - 1) :
          sch[j][2] < sch[j + 1][2] /\ sch[j + 1][2] >= sch[j][2] + sch[j][3]
    /\ \A j, k \in 1..Len(sch) :
          j # k => (sch[j][2] + sch[j][3] <= sch[k][2] \/ sch[k][2] + sch[k][3] <= sch[j][2])

\* C6: in each of the nine schemas the descriptors are in strictly ascending
\* order of start, lengths are positive, starts non-negative, and no two
\* ranges overlap; so is every schema the pipeline hands to the decoder.
C6_SchemasSortedAndDisjoint ==
    /\ Cardinality(DOMAIN ILSOS_SCHEMA) = 9
    /\ \A id \in DOMAIN ILSOS_SCHEMA : WellFormed(ILSOS_SCHEMA[id])
    /\ WellFormed(schema)

C6_Witness ==
    /\ pc = "to_csv"
    /\ Cur.id = "cdxallagt"
    /\ schema = ILSOS_SCHEMA["cdxallagt"]
    /\ Len(schema) = 8

\* the datasets whose process_dataset call is over
Finished == IF Idle THEN calls ELSE SubSeq(calls, 1, Len(calls) - 1)

\* C7: a dataset whose id is no key of ILSOS_SCHEMA ends in an error, never in
\* a CSV, and the batch goes on with the next dataset; the ids of DATASETS and
\* the keys of ILSOS_SCHEMA match one to one, so no dataset of the table fails
\* with an unknown-schema error.
C7_UnknownSchemaFailsLoudly ==
    /\ Ids(DATASETS) = DOMAIN ILSOS_SCHEMA
    /\ \A id \in DOMAIN ILSOS_SCHEMA :
          Cardinality({n \in 1..Len(DATASETS) : DATASETS[n].id = id}) = 1
    /\ \A id \in AllIds \ DOMAIN ILSOS_SCHEMA :
          /\ out[id] \in {Absent, Stale}
          /\ (~Idle /\ Cur.id = id) => pc # "to_csv"
          /\ \A n \in 1..Len(Finished) :
                Finished[n] = id => \E m \in 1..Len(Errors) : Errors[m].id = id
    /\ (Idle /\ calls # <<>> /\ lastExc.type = "KeyError" /\ Errors # <<>>
            /\ Last(Errors).id = Last(calls))
          => Last(calls) \notin Ids(DATASETS)
    /\ pc = "done" => calls = IdSeq(table)

C7_Witness ==
    /\ pc = "done"
    /\ table = <<UnknownDataset, DATASETS[2]>>
    /\ lastExc = Exc("KeyError")
    /\ Len(Errors) = 1
    /\ Errors[1].id = UnknownDataset.id
    /\ out[DATASETS[2].id] = to_csv(df)
    /\ Len(df.rows) = 2

PipelineOrder == <<"fetch", "write_zip", "extract", "decode", "lookup", "parse", "to_csv">>

\* C10: the steps of process_dataset happen in the order fetch, write zip,
\* extract, decode, schema lookup, parse, write CSV; the output directory is
\* touched by the CSV write only, and only at the file of the dataset being
\* processed; no temp dir is left once process_dataset has returned or raised.
C10_OrderAndFrame ==
    /\ [](/\ steps = SubSeq(PipelineOrder, 1, Len(steps))
          /\ Idle => ~tmp.exists
          /\ ~Idle => tmp.exists)
    /\ [][\A id \in AllIds :
            out'[id] # out[id] =>
                (pc = "to_csv" /\ id = Cur.id /\ steps = SubSeq(PipelineOrder, 1, 6))]_vars
    /\ [][FailureStep /\ pc # "to_csv" => out' = out]_vars

C10_Witness ==
    /\ pc = "loop"
    /\ i = 4
    /\ out["cdxallmst"] = Stale
    /\ out["cdxallnam"].lines = <<Names(cdxallnam), <<<<48, 48, 48, 48, 48, 48, 48, 49>>,
                                   <<65, 67, 77, 69, 32, 91, 49, 93, 94>>>>>>
    /\ out["cdxallagt"] = Stale
    /\ lastExc = Exc("RequestException")
    /\ steps = <<"fetch">>
    /\ ~tmp.exists

====
